---- MODULE Spec2Model ----
(***************************************************************************)
(* Client of the prize roulette mini app (mini_app/static/script.js).      *)
(* One client instance: init(), checkCanSpin(), spin(), animateSpin() with *)
(* its frame callback animate(), showResult() and its timer, driven by the *)
(* user, the server's responses, the frame scheduler and the clock.        *)
(* The client is checked against every response a server could give.       *)
(*                                                                         *)
(* The server (mini_app/server.py: can-spin and spin over the table        *)
(* roulette_spins) is a second specification, ServerSpec, over spinRecords *)
(* and calls.                                                              *)
(*                                                                         *)
(* Angles are exact, in degrees (Math.PI is 180).  Times are milliseconds. *)
(* Fractions (progress, easeProgress, currentAngle) are exact rationals,   *)
(* pairs <<numerator, denominator>>, compared by cross-multiplication.     *)
(***************************************************************************)
EXTENDS Integers, Sequences, FiniteSets, TLC

VARIABLES
    userId,            \* tg.initDataUnsafe?.user?.id (NoUser: undefined)
    initPc,            \* position of init(): "start", "awaitCanSpin", "done"
    spinListener,      \* spinBtn has the click listener spin
    isSpinning,        \* let isSpinning
    currentAngle,      \* let currentAngle (rational)
    framePending,      \* a requestAnimationFrame(animate) callback is queued
    anim,              \* closure of animateSpin: targetPrize, totalRotation, startTime
    progress,          \* const progress of the last animate() frame (rational)
    spinBtnDisabled,   \* spinBtn.disabled
    spinBtnDisplayNone,\* spinBtn.style.display = 'none'
    loadingHidden,     \* loadingDiv has class hidden
    resultHidden,      \* resultDiv has class hidden
    resultPrize,       \* resultPrize.textContent
    alreadySpunHidden, \* alreadySpunDiv has class hidden
    alreadySpunPrize,  \* alreadySpunPrize.textContent
    canvasSpinning,    \* canvas has class spinning
    canvasDimmed,      \* canvas.style.opacity = '0.5'
    wheelRotation,     \* rotation of the last drawWheel call (rational)
    lastAlert,         \* text of the last alert()
    awardInFlight,     \* POST /api/spin requests sent and not yet settled
    timers,            \* pending setTimeout callbacks of showResult
    sentData,          \* payloads handed to tg.sendData, in order
    closed,            \* tg.close() was called
    now,               \* Date.now()
    lastCanSpin,       \* the settled GET /api/can-spin response, or NoResponse
    lastAward,         \* the last settled POST /api/spin response, or NoResponse
    awardsSent,        \* number of POST /api/spin requests sent so far
    showResultCalls,   \* arguments of the showResult calls, in order
    spinRecords,       \* server: the rows of the table roulette_spins
    calls              \* server: the calls received, by arrival number

vars == <<userId, initPc, spinListener, isSpinning, currentAngle, framePending,
          anim, progress, spinBtnDisabled, spinBtnDisplayNone, loadingHidden,
          resultHidden, resultPrize, alreadySpunHidden, alreadySpunPrize,
          canvasSpinning, canvasDimmed, wheelRotation, lastAlert,
          awardInFlight, timers, sentData, closed, now, lastCanSpin,
          lastAward, awardsSent, showResultCalls>>

\* the state of the server
svars == <<spinRecords, calls>>

----------------------------------------------------------------------------
(* Program constants *)

PRIZES == <<5000, 10000, 15000, 20000, 25000, 30000>>

\* the prize list the server awards from, as documented (its default)
ServerPrizes == <<5000, 10000, 15000, 20000, 30000>>

PI == 180

duration == 4000

fullRotations == 5

resultDelay == 3000

----------------------------------------------------------------------------
(* Bounds of the model *)

\* the clock advances freely up to MaxIdleNow; beyond it only while an
\* animation or a timer is still waiting for time to pass
MaxIdleNow == 1000

\* award requests one instance sends
MaxRequests == 2

\* gaps between two observations of the clock; 6000 is a suspend/resume gap
Gaps == {500, 1500, 6000}

\* a prize the server may send that is not in the client's table
ForeignPrize == 40000

\* calls the server receives
MaxCalls == 3

----------------------------------------------------------------------------
(* Values *)

NoUser == 0

UserIds == {NoUser, 42}

\* undefined / null prize field
Absent == -1

NoAnim == [targetPrize |-> Absent, totalRotation |-> 0, startTime |-> 0, started |-> FALSE]

NoText == <<>>

Zero == <<0, 1>>

One == <<1, 1>>

----------------------------------------------------------------------------
(* Arithmetic *)

RECURSIVE GCD(_, _)
GCD(a, b) == IF b = 0 THEN a ELSE GCD(b, a % b)

\* the resolution of the model's clock: every gap and the duration are whole
\* multiples of it, hence so is every elapsed time
RECURSIVE GCDSet(_)
GCDSet(S) ==
    IF S = {} THEN 0
    ELSE LET x == CHOOSE y \in S : TRUE IN GCD(x, GCDSet(S \ {x}))

TimeUnit == GCDSet(Gaps \cup {duration})

RatLess(a, b) == a[1] * b[2] < b[1] * a[2]

RatLeq(a, b) == a[1] * b[2] <= b[1] * a[2]

RatEq(a, b) == a[1] * b[2] = b[1] * a[2]

\* JavaScript's % : the result has the sign of the dividend
JsRem(a, m) == IF a >= 0 THEN a % m ELSE -((-a) % m)

\* elapsed / duration without the Math.min
Progress_NoMin(elapsed) == <<elapsed \div TimeUnit, duration \div TimeUnit>>

\* a progress that stays short of 1
Progress_StopsShort(elapsed) ==
    <<(IF 2 * elapsed >= duration THEN duration \div 2 ELSE elapsed) \div TimeUnit,
      duration \div TimeUnit>>

\* Math.min(elapsed / duration, 1), as a fraction of duration / TimeUnit
Progress(elapsed) ==
    <<(IF elapsed >= duration THEN duration ELSE elapsed) \div TimeUnit,
      duration \div TimeUnit>>

\* 1 - Math.pow(1 - progress, 3)
EaseOutCubic(p) ==
    <<p[2] * p[2] * p[2] - (p[2] - p[1]) * (p[2] - p[1]) * (p[2] - p[1]),
      p[2] * p[2] * p[2]>>

\* easeProgress * totalRotation
Scale(e, total) == <<e[1] * total, e[2]>>

----------------------------------------------------------------------------
(* formatPrize: amount.toLocaleString('ru-RU') followed by the currency    *)
(* sign; the ru-RU locale groups the digits by thousands.                  *)

formatPrize(amount) ==
    [thousands |-> amount \div 1000, units |-> amount % 1000, sign |-> "RUB"]

\* undefined.toLocaleString / null.toLocaleString throws a TypeError
formatPrizeThrows(amount) == amount = Absent

----------------------------------------------------------------------------
(* Wheel geometry *)

segments == Len(PRIZES)

arc == (2 * PI) \div segments

\* PRIZES.indexOf(targetPrize), 0-based, -1 when absent
IndexOf(targetPrize) ==
    IF \E i \in 1..Len(PRIZES) : PRIZES[i] = targetPrize
    THEN (CHOOSE i \in 1..Len(PRIZES) :
             /\ PRIZES[i] = targetPrize
             /\ \A j \in 1..(i - 1) : PRIZES[j] # targetPrize) - 1
    ELSE -1

pointerAngle == -(PI \div 2)

\* the start of the segment instead of its centre
segmentCenterAngle_Start(targetIndex) == targetIndex * arc

segmentCenterAngle(targetIndex) == targetIndex * arc + (arc \div 2)

\* a single % : negative for a negative targetAngle
normalizedTargetAngle_SingleRem(targetIndex) ==
    JsRem(pointerAngle - segmentCenterAngle(targetIndex), 2 * PI)

normalizedTargetAngle(targetIndex) ==
    LET targetAngle == pointerAngle - segmentCenterAngle(targetIndex)
    IN  JsRem(JsRem(targetAngle, 2 * PI) + 2 * PI, 2 * PI)

totalRotation(targetPrize) ==
    (fullRotations * 2 * PI) + normalizedTargetAngle(IndexOf(targetPrize))

\* drawWheel(rotation): segment i (0-based) is drawn from rotation + i * arc to
\* rotation + (i + 1) * arc; its centre (where its label is drawn) is at
\* rotation + i * arc + arc / 2.  rotation is a whole number of degrees here.
drawnSegmentCenter(rotation, i) == rotation + i * arc + (arc \div 2)

----------------------------------------------------------------------------
(* Responses.  kind "reject": fetch rejects; "badjson": response.json()    *)
(* rejects; "json": a response with status ok / not ok and a JSON object   *)
(* whose fields can_spin, prize and error may each be missing.             *)

NoResponse ==
    [kind |-> "none", ok |-> FALSE, can_spin |-> "absent", prize |-> Absent, error |-> ""]

TransportFailures ==
    [kind : {"reject", "badjson"}, ok : {FALSE}, can_spin : {"absent"},
     prize : {Absent}, error : {""}]

CanSpinResponses ==
    TransportFailures \cup
    [kind : {"json"}, ok : BOOLEAN, can_spin : {"true"},
     prize : {Absent}, error : {""}] \cup
    [kind : {"json"}, ok : BOOLEAN, can_spin : {"false", "absent"},
     prize : {Absent, PRIZES[1]}, error : {""}]

AwardResponses ==
    TransportFailures \cup
    [kind : {"json"}, ok : {TRUE}, can_spin : {"absent"},
     prize : {Absent, ForeignPrize} \cup {PRIZES[i] : i \in 1..Len(PRIZES)},
     error : {""}] \cup
    [kind : {"json"}, ok : {FALSE}, can_spin : {"absent"},
     prize : {Absent, PRIZES[1]},
     error : {"", "Already spun", "Invalid telegram_id"}]

\* an eligibility answer that is never taken as "already spun"
NotCanSpin_Never(r) == FALSE

\* !data.can_spin
NotCanSpin(r) == r.can_spin # "true"

----------------------------------------------------------------------------
(* The server: the table roulette_spins and the two operations on it.      *)

ServerUsers == {42, 77}

\* a call that has not arrived
NoCall ==
    [op |-> "none", user |-> NoUser, pc |-> "idle", rolled |-> Absent,
     kind |-> "none", prize |-> Absent, raced |-> FALSE]

\* the rows of user u
RowsOf(rows, u) == {i \in 1..Len(rows) : rows[i].telegram_id = u}

HasRecord(rows, u) == RowsOf(rows, u) # {}

\* SELECT prize_amount ... WHERE telegram_id = u
StoredPrize(rows, u) == rows[CHOOSE i \in RowsOf(rows, u) : TRUE].prize_amount

\* an insert that does not look for an existing row
AwardOutcome_AlwaysInsert(rows, u, rolled) ==
    [kind |-> "ok", prize |-> rolled,
     rows |-> Append(rows, [telegram_id |-> u, prize_amount |-> rolled])]

\* an already-spun answer that carries the prize rolled for this call
AwardOutcome_Reroll(rows, u, rolled) ==
    IF HasRecord(rows, u)
    THEN [kind |-> "AlreadySpun", prize |-> rolled, rows |-> rows]
    ELSE [kind |-> "ok", prize |-> rolled,
          rows |-> Append(rows, [telegram_id |-> u, prize_amount |-> rolled])]

\* AwardSpin's one atomic step on the store: insert the rolled prize if the
\* user has no row, else answer AlreadySpun with the stored prize
AwardOutcome(rows, u, rolled) ==
    IF HasRecord(rows, u)
    THEN [kind |-> "AlreadySpun", prize |-> StoredPrize(rows, u), rows |-> rows]
    ELSE [kind |-> "ok", prize |-> rolled,
          rows |-> Append(rows, [telegram_id |-> u, prize_amount |-> rolled])]

\* CheckEligibility: {can_spin: true, prize: null} or {can_spin: false, prize}
CheckOutcome(rows, u) ==
    IF HasRecord(rows, u)
    THEN [kind |-> "cannot_spin", prize |-> StoredPrize(rows, u)]
    ELSE [kind |-> "can_spin", prize |-> Absent]

----------------------------------------------------------------------------
Init ==
    /\ userId \in UserIds
    /\ initPc = "start"
    /\ spinListener = FALSE
    /\ isSpinning = FALSE
    /\ currentAngle = Zero
    /\ framePending = FALSE
    /\ anim = NoAnim
    /\ progress = Zero
    /\ spinBtnDisabled = FALSE
    /\ spinBtnDisplayNone = FALSE
    /\ loadingHidden = TRUE
    /\ resultHidden = TRUE
    /\ resultPrize = NoText
    /\ alreadySpunHidden = TRUE
    /\ alreadySpunPrize = NoText
    /\ canvasSpinning = FALSE
    /\ canvasDimmed = FALSE
    /\ wheelRotation = Zero
    /\ lastAlert = ""
    /\ awardInFlight = 0
    /\ timers = {}
    /\ sentData = <<>>
    /\ closed = FALSE
    /\ now = 0
    /\ lastCanSpin = NoResponse
    /\ lastAward = NoResponse
    /\ awardsSent = 0
    /\ showResultCalls = <<>>
    /\ spinRecords = <<>>
    /\ calls = [c \in 1..MaxCalls |-> NoCall]

----------------------------------------------------------------------------
(* init() up to the await in checkCanSpin(): drawWheel(), then either the  *)
(* missing-user return or the eligibility request.                         *)

InitStart ==
    /\ UNCHANGED svars
    /\ initPc = "start"
    /\ ~closed
    /\ wheelRotation' = Zero
    /\ IF userId = NoUser
       THEN /\ lastAlert' = "no user id"
            /\ loadingHidden' = TRUE
            /\ initPc' = "done"
       ELSE /\ loadingHidden' = FALSE
            /\ initPc' = "awaitCanSpin"
            /\ UNCHANGED lastAlert
    /\ UNCHANGED <<userId, spinListener, isSpinning, currentAngle, framePending,
                   anim, progress, spinBtnDisabled, spinBtnDisplayNone,
                   resultHidden, resultPrize, alreadySpunHidden,
                   alreadySpunPrize, canvasSpinning, canvasDimmed,
                   awardInFlight, timers, sentData, closed, now, lastCanSpin,
                   lastAward, awardsSent, showResultCalls>>

(* The already-spun panel, as both checkCanSpin() and spin() render it.    *)

\* the already-spun panel shown while the spin button stays visible
showAlreadySpun_KeepsButton(prize) ==
    /\ alreadySpunPrize' = formatPrize(prize)
    /\ alreadySpunHidden' = FALSE
    /\ canvasDimmed' = TRUE
    /\ UNCHANGED spinBtnDisplayNone

showAlreadySpun(prize) ==
    /\ alreadySpunPrize' = formatPrize(prize)
    /\ alreadySpunHidden' = FALSE
    /\ spinBtnDisplayNone' = TRUE
    /\ canvasDimmed' = TRUE

(* checkCanSpin() from the settled fetch to its return, and the rest of    *)
(* init(): the click listener is added when checkCanSpin returned true.    *)

checkCanSpin(r) ==
    /\ initPc = "awaitCanSpin"
    /\ ~closed
    /\ lastCanSpin' = r
    /\ initPc' = "done"
    /\ loadingHidden' = TRUE
    /\ IF r.kind # "json" \/ (NotCanSpin(r) /\ formatPrizeThrows(r.prize))
       THEN \* catch (error)
            /\ lastAlert' = "connection error"
            /\ UNCHANGED <<alreadySpunPrize, alreadySpunHidden,
                           spinBtnDisplayNone, canvasDimmed, spinListener>>
       ELSE IF NotCanSpin(r)
       THEN /\ showAlreadySpun(r.prize)
            /\ UNCHANGED <<lastAlert, spinListener>>
       ELSE /\ spinListener' = TRUE
            /\ UNCHANGED <<lastAlert, alreadySpunPrize, alreadySpunHidden,
                           spinBtnDisplayNone, canvasDimmed>>
    /\ UNCHANGED <<userId, isSpinning, currentAngle, framePending, anim,
                   progress, spinBtnDisabled, resultHidden, resultPrize,
                   canvasSpinning, wheelRotation, awardInFlight, timers,
                   sentData, closed, now, lastAward, awardsSent,
                   showResultCalls>>

CanSpinSettled ==
    /\ \E r \in CanSpinResponses : checkCanSpin(r)
    /\ UNCHANGED svars

----------------------------------------------------------------------------
(* spin() up to the await of fetch('/api/spin').                           *)

\* spin() without the isSpinning guard, flag and disabling of the button
spin_NoGuard ==
    /\ userId # NoUser
    /\ loadingHidden' = FALSE
    /\ awardInFlight' = awardInFlight + 1
    /\ awardsSent' = awardsSent + 1
    /\ lastAward' = NoResponse
    /\ UNCHANGED <<userId, initPc, spinListener, isSpinning, spinBtnDisabled,
                   currentAngle, framePending, anim, progress,
                   spinBtnDisplayNone, resultHidden, resultPrize,
                   alreadySpunHidden, alreadySpunPrize, canvasSpinning,
                   canvasDimmed, wheelRotation, lastAlert, timers, sentData,
                   closed, now, lastCanSpin, showResultCalls>>

spin ==
    IF isSpinning
    THEN UNCHANGED vars
    ELSE IF userId = NoUser
    THEN /\ lastAlert' = "no user id"
         /\ UNCHANGED <<userId, initPc, spinListener, isSpinning, currentAngle,
                        framePending, anim, progress, spinBtnDisabled,
                        spinBtnDisplayNone, loadingHidden, resultHidden,
                        resultPrize, alreadySpunHidden, alreadySpunPrize,
                        canvasSpinning, canvasDimmed, wheelRotation,
                        awardInFlight, timers, sentData, closed, now,
                        lastCanSpin, lastAward, awardsSent, showResultCalls>>
    ELSE /\ isSpinning' = TRUE
         /\ spinBtnDisabled' = TRUE
         /\ loadingHidden' = FALSE
         /\ awardInFlight' = awardInFlight + 1
         /\ awardsSent' = awardsSent + 1
         /\ lastAward' = NoResponse
         /\ UNCHANGED <<userId, initPc, spinListener, currentAngle,
                        framePending, anim, progress, spinBtnDisplayNone,
                        resultHidden, resultPrize, alreadySpunHidden,
                        alreadySpunPrize, canvasSpinning, canvasDimmed,
                        wheelRotation, lastAlert, timers, sentData, closed,
                        now, lastCanSpin, showResultCalls>>

(* The user clicks the spin button: the browser dispatches the click only  *)
(* to a listener that was added, on a button that is neither disabled nor  *)
(* display:none.                                                           *)

ClickSpin ==
    /\ spinListener
    /\ ~spinBtnDisabled
    /\ ~spinBtnDisplayNone
    /\ ~closed
    /\ awardsSent < MaxRequests
    /\ spin
    /\ UNCHANGED svars

----------------------------------------------------------------------------
(* animateSpin(targetPrize): the closure and the first frame request.      *)

\* an animation to a prize the client picks itself
animateSpin_OwnChoice(targetPrize) ==
    /\ anim' = [targetPrize |-> PRIZES[1],
                totalRotation |-> totalRotation(PRIZES[1]),
                startTime |-> now,
                started |-> TRUE]
    /\ canvasSpinning' = TRUE
    /\ framePending' = TRUE

animateSpin(targetPrize) ==
    /\ anim' = [targetPrize |-> targetPrize,
                totalRotation |-> totalRotation(targetPrize),
                startTime |-> now,
                started |-> TRUE]
    /\ canvasSpinning' = TRUE
    /\ framePending' = TRUE

\* a catch block that reports the error and leaves the wheel locked
spinCatch_NoReset ==
    /\ lastAlert' = "connection error"
    /\ UNCHANGED <<isSpinning, spinBtnDisabled>>

\* a catch block that re-enables the button and forgets the flag
spinCatch_KeepsFlag ==
    /\ spinBtnDisabled' = FALSE
    /\ lastAlert' = "connection error"
    /\ UNCHANGED isSpinning

(* The catch block of spin().                                              *)

spinCatch ==
    /\ isSpinning' = FALSE
    /\ spinBtnDisabled' = FALSE
    /\ lastAlert' = "connection error"

(* spin() from the settled fetch to its end.                               *)

spinSettled(r) ==
    /\ awardInFlight > 0
    /\ ~closed
    /\ awardInFlight' = awardInFlight - 1
    /\ lastAward' = r
    /\ loadingHidden' = TRUE
    /\ IF r.kind # "json"
       THEN /\ spinCatch
            /\ UNCHANGED <<anim, canvasSpinning, framePending,
                           alreadySpunPrize, alreadySpunHidden,
                           spinBtnDisplayNone, canvasDimmed>>
       ELSE IF r.ok
       THEN /\ animateSpin(r.prize)
            /\ UNCHANGED <<isSpinning, spinBtnDisabled, lastAlert,
                           alreadySpunPrize, alreadySpunHidden,
                           spinBtnDisplayNone, canvasDimmed>>
       ELSE /\ UNCHANGED <<anim, canvasSpinning, framePending>>
            /\ IF r.error = "Already spun"
               THEN IF formatPrizeThrows(r.prize)
                    THEN \* the TypeError lands in the catch block, which
                         \* repeats the reset of lines 228-229
                         /\ spinCatch
                         /\ UNCHANGED <<alreadySpunPrize, alreadySpunHidden,
                                        spinBtnDisplayNone, canvasDimmed>>
                    ELSE /\ isSpinning' = FALSE
                         /\ spinBtnDisabled' = FALSE
                         /\ showAlreadySpun(r.prize)
                         /\ UNCHANGED lastAlert
               ELSE /\ isSpinning' = FALSE
                    /\ spinBtnDisabled' = FALSE
                    /\ lastAlert' = IF r.error = "" THEN "spin failed" ELSE r.error
                    /\ UNCHANGED <<alreadySpunPrize, alreadySpunHidden,
                                   spinBtnDisplayNone, canvasDimmed>>
    /\ UNCHANGED <<userId, initPc, spinListener, currentAngle, progress,
                   resultHidden, resultPrize, wheelRotation, timers, sentData,
                   closed, now, lastCanSpin, awardsSent, showResultCalls>>

AwardSettled ==
    /\ \E r \in AwardResponses : spinSettled(r)
    /\ UNCHANGED svars

----------------------------------------------------------------------------
(* showResult(prize): the result panel and the timer.  formatPrize throws  *)
(* on a missing prize, before anything is shown or scheduled.              *)

showResult(prize) ==
    /\ showResultCalls' = Append(showResultCalls, prize)
    /\ IF formatPrizeThrows(prize)
       THEN UNCHANGED <<resultPrize, resultHidden, timers>>
       ELSE /\ resultPrize' = formatPrize(prize)
            /\ resultHidden' = FALSE
            /\ timers' = timers \cup {[prize |-> prize, due |-> now + resultDelay]}

\* animate() that requests another frame after its final frame too
animate_KeepsRequesting ==
    /\ framePending
    /\ ~closed
    /\ LET elapsed == now - anim.startTime
           p == Progress(elapsed)
           easeProgress == EaseOutCubic(p)
           angle == Scale(easeProgress, anim.totalRotation)
       IN  /\ progress' = p
           /\ currentAngle' = angle
           /\ wheelRotation' = angle
           /\ framePending' = TRUE
           /\ IF RatLess(p, One)
              THEN UNCHANGED <<canvasSpinning, isSpinning, showResultCalls,
                               resultPrize, resultHidden, timers>>
              ELSE /\ canvasSpinning' = FALSE
                   /\ isSpinning' = FALSE
                   /\ showResult(anim.targetPrize)
    /\ UNCHANGED <<userId, initPc, spinListener, anim, spinBtnDisabled,
                   spinBtnDisplayNone, loadingHidden, alreadySpunHidden,
                   alreadySpunPrize, canvasDimmed, lastAlert, awardInFlight,
                   sentData, closed, now, lastCanSpin, lastAward, awardsSent>>

(* animate(): one frame callback.                                          *)

animate ==
    /\ framePending
    /\ ~closed
    /\ LET elapsed == now - anim.startTime
           p == Progress(elapsed)
           easeProgress == EaseOutCubic(p)
           angle == Scale(easeProgress, anim.totalRotation)
       IN  /\ progress' = p
           /\ currentAngle' = angle
           /\ wheelRotation' = angle
           /\ IF RatLess(p, One)
              THEN /\ framePending' = TRUE
                   /\ UNCHANGED <<canvasSpinning, isSpinning, showResultCalls,
                                  resultPrize, resultHidden, timers>>
              ELSE /\ framePending' = FALSE
                   /\ canvasSpinning' = FALSE
                   /\ isSpinning' = FALSE
                   /\ showResult(anim.targetPrize)
    /\ UNCHANGED <<userId, initPc, spinListener, anim, spinBtnDisabled,
                   spinBtnDisplayNone, loadingHidden, alreadySpunHidden,
                   alreadySpunPrize, canvasDimmed, lastAlert, awardInFlight,
                   sentData, closed, now, lastCanSpin, lastAward, awardsSent>>

----------------------------------------------------------------------------
(* The timer callback of showResult.  tg.sendData either returns or        *)
(* throws; the catch block hides the result panel.                         *)

resultTimeout(t, sendDataThrows) ==
    /\ t \in timers
    /\ now >= t.due
    /\ ~closed
    /\ timers' = timers \ {t}
    /\ IF sendDataThrows
       THEN /\ resultHidden' = TRUE
            /\ UNCHANGED <<sentData, closed>>
       ELSE /\ sentData' = Append(sentData, [prize |-> t.prize])
            /\ closed' = TRUE
            /\ UNCHANGED resultHidden
    /\ UNCHANGED <<userId, initPc, spinListener, isSpinning, currentAngle,
                   framePending, anim, progress, spinBtnDisabled,
                   spinBtnDisplayNone, loadingHidden, resultPrize,
                   alreadySpunHidden, alreadySpunPrize, canvasSpinning,
                   canvasDimmed, wheelRotation, lastAlert, awardInFlight, now,
                   lastCanSpin, lastAward, awardsSent, showResultCalls>>

TimerFires ==
    /\ \E t \in timers : \E th \in BOOLEAN : resultTimeout(t, th)
    /\ UNCHANGED svars

(* The click listener init() adds to the result panel.                     *)

ClickResult ==
    /\ UNCHANGED svars
    /\ initPc = "done"
    /\ ~resultHidden
    /\ ~closed
    /\ resultHidden' = TRUE
    /\ UNCHANGED <<userId, initPc, spinListener, isSpinning, currentAngle,
                   framePending, anim, progress, spinBtnDisabled,
                   spinBtnDisplayNone, loadingHidden, resultPrize,
                   alreadySpunHidden, alreadySpunPrize, canvasSpinning,
                   canvasDimmed, wheelRotation, lastAlert, awardInFlight,
                   timers, sentData, closed, now, lastCanSpin, lastAward,
                   awardsSent, showResultCalls>>

(* The clock.  It is capped where no frame and no timer waits for it.      *)

Tick ==
    /\ UNCHANGED svars
    /\ ~closed
    /\ \E g \in Gaps :
          /\ \/ now + g <= MaxIdleNow
             \/ framePending /\ now < anim.startTime + duration
             \/ \E t \in timers : now < t.due
          /\ now' = now + g
    /\ UNCHANGED <<userId, initPc, spinListener, isSpinning, currentAngle,
                   framePending, anim, progress, spinBtnDisabled,
                   spinBtnDisplayNone, loadingHidden, resultHidden,
                   resultPrize, alreadySpunHidden, alreadySpunPrize,
                   canvasSpinning, canvasDimmed, wheelRotation, lastAlert,
                   awardInFlight, timers, sentData, closed, lastCanSpin,
                   lastAward, awardsSent, showResultCalls>>

(* The frame scheduler runs the queued callback.                           *)

Frame ==
    /\ animate
    /\ UNCHANGED svars

----------------------------------------------------------------------------
Next ==
    \/ InitStart
    \/ CanSpinSettled
    \/ ClickSpin
    \/ AwardSettled
    \/ Frame
    \/ TimerFires
    \/ ClickResult
    \/ Tick

Spec == Init /\ [][Next]_<<vars, svars>>

\* The frame scheduler keeps running queued frames, timers that are due
\* fire, and the clock keeps advancing.  The user and the server owe nothing.
FairSpec ==
    /\ Spec
    /\ WF_vars(animate)
    /\ WF_vars(TimerFires)
    /\ WF_vars(Tick)

----------------------------------------------------------------------------
(* The server's steps.  Calls arrive in any number up to MaxCalls and are  *)
(* in progress together; each step of a call is atomic.                    *)

\* another call for the same user is in progress
Racing(c) ==
    \E d \in 1..MaxCalls :
        /\ d # c
        /\ calls[d].user = calls[c].user
        /\ calls[d].pc \in {"started", "rolled"}

\* a request arrives: GET /api/can-spin or POST /api/spin, with a user id
\* or without a usable one
Receive ==
    /\ \E c \in 1..MaxCalls, op \in {"award", "check"}, u \in ServerUsers \cup {NoUser} :
          /\ calls[c].op = "none"
          /\ IF c = 1 THEN TRUE ELSE calls[c - 1].op # "none"
          /\ calls' = [calls EXCEPT ![c] =
                          [NoCall EXCEPT !.op = op, !.user = u, !.pc = "started"]]
    /\ UNCHANGED <<spinRecords, vars>>

\* InvalidInput: the user id is absent or malformed; no row is created
RejectInvalid ==
    /\ \E c \in 1..MaxCalls :
          /\ calls[c].pc = "started"
          /\ calls[c].user = NoUser
          /\ calls' = [calls EXCEPT ![c].pc = "done", ![c].kind = "InvalidInput"]
    /\ UNCHANGED <<spinRecords, vars>>

\* CheckEligibility(user_id): one read of the store
CheckEligibility ==
    /\ \E c \in 1..MaxCalls :
          /\ calls[c].op = "check"
          /\ calls[c].pc = "started"
          /\ calls[c].user # NoUser
          /\ LET out == CheckOutcome(spinRecords, calls[c].user)
             IN  calls' = [calls EXCEPT ![c].pc = "done",
                                        ![c].kind = out.kind,
                                        ![c].prize = out.prize]
    /\ UNCHANGED <<spinRecords, vars>>

\* AwardSpin(user_id), the selection: random.choice(PRIZES)
RollPrize ==
    /\ \E c \in 1..MaxCalls, p \in {ServerPrizes[i] : i \in 1..Len(ServerPrizes)} :
          /\ calls[c].op = "award"
          /\ calls[c].pc = "started"
          /\ calls[c].user # NoUser
          /\ calls' = [calls EXCEPT ![c].pc = "rolled", ![c].rolled = p]
    /\ UNCHANGED <<spinRecords, vars>>

\* AwardSpin(user_id), the atomic insert-if-absent and the answer
AwardSpin ==
    /\ \E c \in 1..MaxCalls :
          /\ calls[c].op = "award"
          /\ calls[c].pc = "rolled"
          /\ LET out == AwardOutcome(spinRecords, calls[c].user, calls[c].rolled)
             IN  /\ spinRecords' = out.rows
                 /\ calls' = [calls EXCEPT ![c].pc = "done",
                                           ![c].kind = out.kind,
                                           ![c].prize = out.prize,
                                           ![c].raced = Racing(c)]
    /\ UNCHANGED vars

ServerNext ==
    \/ Receive
    \/ RejectInvalid
    \/ CheckEligibility
    \/ RollPrize
    \/ AwardSpin

\* the server's state space, beside one client instance that stays put
ServerInit == Init /\ userId = NoUser

ServerSpec == ServerInit /\ [][ServerNext]_<<vars, svars>>

----------------------------------------------------------------------------
(* Properties *)

Animating == framePending

AwaitingServer == awardInFlight > 0

PrizeSet == {PRIZES[i] : i \in 1..Len(PRIZES)}

\* an angle in whole degrees, reduced to [0, 360)
Turn(a) == a % (2 * PI)

\* the rotation r is a whole number of degrees
IsWhole(r) == r[1] % r[2] = 0

Whole(r) == r[1] \div r[2]

\* segment i (0-based) has its centre under the pointer when the wheel is
\* drawn with the rotation r
CenterUnderPointer(r, i) ==
    /\ IsWhole(r)
    /\ Turn(drawnSegmentCenter(Whole(r), i)) = Turn(pointerAngle)

AnimationFinished == anim.started /\ ~framePending

\* C1: while an award request is in flight or the animation it started is
\* running, isSpinning is true and the spin button is disabled; at most one
\* award request is in flight; a request is sent only when no other request
\* is in flight and no animation is running.
C1_SpinLockedWhileBusy ==
    /\ [](/\ (AwaitingServer \/ Animating) => (isSpinning /\ spinBtnDisabled)
          /\ awardInFlight <= 1)
    /\ [][awardsSent' # awardsSent => (~Animating /\ ~AwaitingServer)]_vars

C1_Witness ==
    /\ Animating
    /\ RatLess(Zero, progress)
    /\ awardsSent = 2

\* C2: when the animation to a prize of the table has run its final frame,
\* the wheel is drawn at a whole rotation r for which the centre of the
\* prize's segment, and of no other segment, is at the pointer angle modulo
\* one full turn.
C2_LandsOnTargetCenter ==
    (AnimationFinished /\ anim.targetPrize \in PrizeSet) =>
        /\ wheelRotation = currentAngle
        /\ \A i \in 0..(segments - 1) :
              CenterUnderPointer(wheelRotation, i) <=> (i = IndexOf(anim.targetPrize))

C2_Witness ==
    /\ AnimationFinished
    /\ anim.targetPrize = PRIZES[4]
    /\ CenterUnderPointer(wheelRotation, 3)

\* C3: showResult is called only by the frame in which progress reaches 1,
\* which is the first such frame, with the target prize, and that frame
\* requests no further frame; every frame in which progress reaches 1 calls
\* it; so a started animation has called it once when it has finished and
\* not at all before.
C3_CompletionExactlyOnce ==
    /\ [][/\ showResultCalls' # showResultCalls =>
                /\ Animating
                /\ RatLess(progress, One)
                /\ RatEq(progress', One)
                /\ showResultCalls' = Append(showResultCalls, anim.targetPrize)
                /\ ~Animating'
          /\ (Animating /\ RatEq(progress', One)) =>
                showResultCalls' # showResultCalls]_vars
    /\ [](Len(showResultCalls) = IF AnimationFinished THEN 1 ELSE 0)

C3_Witness ==
    /\ AnimationFinished
    /\ showResultCalls = <<anim.targetPrize>>
    /\ RatEq(progress, One)
    /\ now > anim.startTime + duration

\* C10: from one frame to the next progress and currentAngle do not
\* decrease, progress is at most 1, currentAngle is at most the total
\* rotation, and after the final frame currentAngle is the total rotation.
C10_ProgressMonotone ==
    /\ [][/\ RatLeq(progress, progress')
          /\ RatLeq(currentAngle, currentAngle')]_vars
    /\ [](/\ RatLeq(progress, One)
          /\ RatLeq(currentAngle, <<anim.totalRotation, 1>>)
          /\ AnimationFinished => RatEq(currentAngle, <<anim.totalRotation, 1>>))

\* a frame after a suspend/resume gap that jumped progress from below 1/2
\* straight to 1
C10_Witness ==
    /\ AnimationFinished
    /\ now >= anim.startTime + 6000
    /\ now < anim.startTime + 6000 + (duration \div 2)
    /\ RatEq(currentAngle, <<anim.totalRotation, 1>>)

\* everything but the clock
varsButNow ==
    <<userId, initPc, spinListener, isSpinning, currentAngle, framePending,
      anim, progress, spinBtnDisabled, spinBtnDisplayNone, loadingHidden,
      resultHidden, resultPrize, alreadySpunHidden, alreadySpunPrize,
      canvasSpinning, canvasDimmed, wheelRotation, lastAlert, awardInFlight,
      timers, sentData, closed, lastCanSpin, lastAward, awardsSent,
      showResultCalls>>

\* C9: a running animation reaches its final frame and isSpinning becomes
\* false again; the closure of a started animation is never replaced by a
\* second animation; and while an animation runs the only steps that change
\* anything but the clock are its own frames, so no click of the user
\* pauses, aborts or restarts it.
C9_AnimationFinishes ==
    /\ Animating ~> (AnimationFinished /\ ~isSpinning)
    /\ [][anim.started => anim' = anim]_vars
    /\ [][Animating => (animate \/ UNCHANGED varsButNow)]_vars

\* an animation that needed the clock to advance has finished and released
\* isSpinning
C9_Witness ==
    /\ AnimationFinished
    /\ ~isSpinning
    /\ RatEq(progress, One)
    /\ now >= anim.startTime + duration
    /\ awardsSent = 2

\* C8: the client does not stay for ever in the state where an award
\* request is in flight, isSpinning is true and the spin button is disabled.
C8_AwardTimesOut ==
    []<>(~(AwaitingServer /\ isSpinning /\ spinBtnDisabled))

\* C5: after a successful award response that carries a prize which is not
\* in the prize table, the wheel has not been brought to rest on a segment,
\* showResult has not been called, no result is shown and nothing has been
\* sent to the hosting application.
C5_UnknownPrizeRejected ==
    (/\ lastAward.kind = "json"
     /\ lastAward.ok
     /\ lastAward.prize # Absent
     /\ IndexOf(lastAward.prize) = -1) =>
        /\ ~(/\ AnimationFinished
             /\ \E i \in 0..(segments - 1) : CenterUnderPointer(wheelRotation, i))
        /\ showResultCalls = <<>>
        /\ resultHidden
        /\ sentData = <<>>

\* C6: after a transport failure of the award request no animation was
\* started, no result and no already-spun panel is shown, nothing was sent,
\* isSpinning is false and the spin button is enabled; after a transport
\* failure of the eligibility request likewise nothing is shown, started or
\* sent.
C6_TransportFailureIsNeutral ==
    /\ lastAward \in TransportFailures =>
          /\ ~isSpinning
          /\ ~spinBtnDisabled
          /\ ~spinBtnDisplayNone
          /\ ~anim.started
          /\ ~Animating
          /\ showResultCalls = <<>>
          /\ resultHidden
          /\ alreadySpunHidden
          /\ sentData = <<>>
          /\ lastAlert = "connection error"
    /\ lastCanSpin \in TransportFailures =>
          /\ ~spinListener
          /\ awardsSent = 0
          /\ ~anim.started
          /\ ~Animating
          /\ showResultCalls = <<>>
          /\ resultHidden
          /\ alreadySpunHidden
          /\ sentData = <<>>
          /\ lastAlert = "connection error"

\* both kinds of transport failure of the award request have happened, the
\* second on a retry by the user
C6_Witness ==
    /\ lastAward.kind = "badjson"
    /\ awardsSent = 2
    /\ ~isSpinning
    /\ ~spinBtnDisabled

\* C4: nothing is sent before the animation has finished; what is sent is
\* the one payload with the prize of the successful award response that
\* started the animation; the view is closed only after the payload was
\* sent; and once the timer of a finished animation's result has run, the
\* payload has been sent and the view is closed.
C4_ForwardThenClose ==
    /\ sentData # <<>> =>
          /\ AnimationFinished
          /\ lastAward.kind = "json" /\ lastAward.ok
          /\ sentData = <<[prize |-> lastAward.prize]>>
    /\ closed => sentData # <<>>
    /\ (AnimationFinished /\ anim.targetPrize # Absent /\ timers = {}) =>
          (sentData # <<>> /\ closed)

\* the already-spun shape of each endpoint
AwardAlreadySpunShape(r) ==
    r.kind = "json" /\ r.error = "Already spun" /\ r.prize # Absent

CanSpinAlreadySpunShape(r) ==
    r.kind = "json" /\ r.can_spin = "false" /\ r.prize # Absent

\* C7: after a response with a non-success status, on the award endpoint
\* and on the eligibility endpoint alike: if it has the already-spun shape
\* the already-spun panel shows its prize and the spin button is hidden;
\* otherwise it was handled as an error: the panel is not shown, the user
\* was alerted, the spin listener was not added for it, no animation was
\* started and nothing was sent.
C7_OnlyRecognizedShapeIsAlreadySpun ==
    /\ (lastAward.kind = "json" /\ ~lastAward.ok) =>
          IF AwardAlreadySpunShape(lastAward)
          THEN /\ ~alreadySpunHidden
               /\ alreadySpunPrize = formatPrize(lastAward.prize)
               /\ spinBtnDisplayNone
          ELSE /\ alreadySpunHidden
               /\ lastAlert # ""
               /\ ~anim.started
               /\ sentData = <<>>
    /\ (lastCanSpin.kind = "json" /\ ~lastCanSpin.ok) =>
          IF CanSpinAlreadySpunShape(lastCanSpin)
          THEN /\ ~alreadySpunHidden
               /\ alreadySpunPrize = formatPrize(lastCanSpin.prize)
               /\ spinBtnDisplayNone
          ELSE /\ alreadySpunHidden
               /\ lastAlert # ""
               /\ ~spinListener
               /\ ~anim.started
               /\ sentData = <<>>

\* the eligibility response said can_spin: true
EligibilityGranted ==
    lastCanSpin.kind = "json" /\ lastCanSpin.can_spin = "true"

\* C14: the spin listener is added exactly when the eligibility request of
\* this instance has returned can_spin = true, and an award request has been
\* sent only then; after an already-spun answer, a failed eligibility
\* request or without a user id no listener exists and no request was sent.
C14_AwardOnlyAfterEligible ==
    /\ spinListener <=> (initPc = "done" /\ EligibilityGranted)
    /\ awardsSent > 0 => (spinListener /\ EligibilityGranted /\ userId # NoUser)
    /\ (initPc = "done" /\ ~EligibilityGranted) =>
          (~spinListener /\ awardsSent = 0 /\ awardInFlight = 0)

C14_Witness ==
    /\ EligibilityGranted
    /\ spinListener
    /\ awardsSent = 1
    /\ awardInFlight = 1

\* C15: an animation is started only by the step that settles an award
\* request with a successful response, and its target is the prize of that
\* response; after an already-spun, error or transport-failure outcome no
\* animation has been started.
C15_AnimationOnlyFromAward ==
    /\ [][anim' # anim =>
             /\ AwaitingServer
             /\ lastAward'.kind = "json"
             /\ lastAward'.ok
             /\ anim'.started
             /\ anim'.targetPrize = lastAward'.prize
             /\ Animating']_vars
    /\ [](anim.started =>
             /\ lastAward.kind = "json"
             /\ lastAward.ok
             /\ anim.targetPrize = lastAward.prize)
    /\ []((lastAward.kind # "json" \/ ~lastAward.ok) => (~anim.started /\ ~Animating))

C15_Witness ==
    /\ Animating
    /\ lastAward.ok
    /\ anim.targetPrize = lastAward.prize
    /\ anim.targetPrize = PRIZES[3]
    /\ awardsSent = 2

\* pointerAngle - segmentCenterAngle for the target of the animation
TargetAngleOf(a) == pointerAngle - segmentCenterAngle(IndexOf(a.targetPrize))

\* C16: for an animation to a prize of the table, the landing angle (the
\* total rotation less the 5 full turns) lies in [0, 360), is the target
\* angle modulo one turn also where that angle is negative, and the total
\* rotation lies in [5 turns, 6 turns).
C16_TotalRotationRange ==
    (anim.started /\ anim.targetPrize \in PrizeSet) =>
        LET landing == anim.totalRotation - fullRotations * 2 * PI
        IN  /\ 0 <= landing
            /\ landing < 2 * PI
            /\ Turn(landing) = Turn(TargetAngleOf(anim))
            /\ fullRotations * 2 * PI <= anim.totalRotation
            /\ anim.totalRotation < (fullRotations + 1) * 2 * PI

\* the last segment: its target angle, -420 degrees, is negative and more
\* than one turn away
C16_Witness ==
    /\ anim.started
    /\ anim.targetPrize = PRIZES[6]
    /\ TargetAngleOf(anim) < -(2 * PI)
    /\ anim.totalRotation = fullRotations * 2 * PI + 300

\* C17: isSpinning is true exactly in the states AwaitingServer (an award
\* request is in flight) and Animating (a frame of the animation is
\* pending), and when it is true the spin button is disabled.
C17_IsSpinningIsTheState ==
    /\ isSpinning <=> (AwaitingServer \/ Animating)
    /\ isSpinning => spinBtnDisabled

\* the animating state, reached on the retry after a failed request
C17_Witness ==
    /\ isSpinning
    /\ Animating
    /\ ~AwaitingServer
    /\ awardsSent = 2
    /\ RatLess(progress, One)

\* a definitive award outcome: a successful response, or a not-ok response
\* of the already-spun shape
DefinitiveOutcome(r) ==
    r.kind = "json" /\ (r.ok \/ AwardAlreadySpunShape(r))

\* C18: no award request is sent once the last settled award response was
\* definitive, nor once an animation has been started, also after it has
\* finished and isSpinning is false again; a started animation is never
\* replaced, showResult is called at most once and at most one payload is
\* sent to the hosting application.
C18_OneDefinitiveOutcome ==
    /\ [][awardsSent' # awardsSent =>
             (~DefinitiveOutcome(lastAward) /\ ~anim.started)]_vars
    /\ [][anim.started => anim' = anim]_vars
    /\ [](/\ Len(showResultCalls) <= 1
          /\ Len(sentData) <= 1
          /\ DefinitiveOutcome(lastAward) => ~AwaitingServer)

\* the animation has finished, isSpinning is false again, the result timer
\* has run without closing the view, and the spin button is still locked
C18_Witness ==
    /\ AnimationFinished
    /\ ~isSpinning
    /\ DefinitiveOutcome(lastAward)
    /\ timers = {}
    /\ ~closed
    /\ spinBtnDisabled
    /\ awardsSent < MaxRequests

ServerPrizeSet == {ServerPrizes[i] : i \in 1..Len(ServerPrizes)}

\* C13: once the wheel is drawn, every prize the server awards has a segment
\* on it and every segment of it carries a prize the server awards: the two
\* tables are the same list.
C13_PrizeTablesIdentical ==
    initPc # "start" =>
        /\ \A p \in ServerPrizeSet : IndexOf(p) # -1
        /\ \A i \in 0..(segments - 1) : PRIZES[i + 1] \in ServerPrizeSet
        /\ PRIZES = ServerPrizes

\* the award calls for user u that have returned
AwardsDone(u) ==
    {c \in 1..MaxCalls :
        calls[c].op = "award" /\ calls[c].user = u /\ calls[c].pc = "done"}

\* the award calls for user u that have returned success
AwardsWon(u) == {c \in AwardsDone(u) : calls[c].kind = "ok"}

\* C11: for every user id the table holds at most one row; once any award
\* call for the id has returned it holds exactly one, exactly one call has
\* returned success, and every returned call, success or AlreadySpun,
\* carries the prize of that row.
C11_OneRecordOnePrize ==
    \A u \in ServerUsers :
        /\ Cardinality(RowsOf(spinRecords, u)) <= 1
        /\ AwardsDone(u) # {} =>
              /\ Cardinality(RowsOf(spinRecords, u)) = 1
              /\ Cardinality(AwardsWon(u)) = 1
              /\ \A c \in AwardsDone(u) :
                    /\ calls[c].kind \in {"ok", "AlreadySpun"}
                    /\ calls[c].prize = StoredPrize(spinRecords, u)

\* three calls for one id that had rolled three different prizes while all
\* were in progress have all returned
C11_Witness ==
    /\ Cardinality(AwardsDone(42)) = 3
    /\ Cardinality({calls[c].rolled : c \in AwardsDone(42)}) = 3
    /\ Cardinality({c \in AwardsDone(42) : calls[c].raced}) >= 2
    /\ Cardinality({calls[c].prize : c \in AwardsDone(42)}) = 1
    /\ Len(spinRecords) = 1

\* call c takes the step that returns its answer
Returns(c, op) ==
    /\ calls[c].op = op
    /\ calls[c].user # NoUser
    /\ calls[c].pc # "done"
    /\ calls'[c].pc = "done"

\* C12: a CheckEligibility call leaves the table as it is and answers
\* can_spin = false with the prize of the award call that succeeded for the
\* user, or can_spin = true without a prize if none has; an AwardSpin call
\* that returns after one has succeeded for the user fails with AlreadySpun
\* and that same prize, and adds no row.
C12_EligibilityReflectsStore ==
    [][\A c \in 1..MaxCalls :
          LET u == calls[c].user
          IN  /\ Returns(c, "check") =>
                    /\ spinRecords' = spinRecords
                    /\ IF AwardsWon(u) # {}
                       THEN /\ calls'[c].kind = "cannot_spin"
                            /\ \A w \in AwardsWon(u) : calls'[c].prize = calls[w].prize
                       ELSE /\ calls'[c].kind = "can_spin"
                            /\ calls'[c].prize = Absent
              /\ (Returns(c, "award") /\ AwardsWon(u) # {}) =>
                    /\ spinRecords' = spinRecords
                    /\ calls'[c].kind = "AlreadySpun"
                    /\ \A w \in AwardsWon(u) : calls'[c].prize = calls[w].prize
        ]_<<vars, svars>>

\* after a successful award, a check has answered with its prize and a
\* later award call, alone in progress, that had rolled another prize has
\* failed with the stored one
C12_Witness ==
    /\ calls[1].op = "award" /\ calls[1].user = 42 /\ calls[1].kind = "ok"
    /\ calls[2].op = "check" /\ calls[2].user = 42
    /\ calls[2].kind = "cannot_spin" /\ calls[2].prize = calls[1].prize
    /\ calls[3].op = "award" /\ calls[3].user = 42
    /\ calls[3].kind = "AlreadySpun" /\ ~calls[3].raced
    /\ calls[3].rolled # calls[1].prize
    /\ calls[3].prize = calls[1].prize

====
